---------------------------- MODULE Spec2Model ----------------------------
(***************************************************************************)
(* Model of bot.py: the /remind one-shot timer handler, the job queue that *)
(* holds the armed timers, process restart (main), and the journal         *)
(* handlers /thought, /today and /allthoughts over the sqlite tables.      *)
(*                                                                         *)
(* Time is counted in ticks (UnitsPerSecond ticks per second).  `clock` is *)
(* the UTC instant; datetime.now(TIMEZONE) is clock rendered at UTC+8      *)
(* (Asia/Hong_Kong has a fixed offset and no daylight saving).             *)
(* Strings are sequences of one-character strings.                         *)
(***************************************************************************)
EXTENDS Integers, Sequences, FiniteSets, TLC

VARIABLES clock, thoughts, reminders, jobs, sent, created, reply

vars == <<clock, thoughts, reminders, jobs, sent, created, reply>>

----------------------------------------------------------------------------
(* Bounds of the model *)

UnitsPerSecond == 2
MaxDay == 2
MaxReminders == 2
MaxThoughts == 2

----------------------------------------------------------------------------
(* Time *)

Second == UnitsPerSecond
Minute == 60 * Second
Hour == 60 * Minute
Day == 24 * Hour

\* TIMEZONE = ZoneInfo("Asia/Hong_Kong"): utcoffset
TZOffset == 8 * Hour

\* datetime.now(TIMEZONE).date(), as a day number
LocalDate(t) == (t + TZOffset) \div Day

\* local wall-clock time of day of the instant t
LocalTod(t) == (t + TZOffset) % Day

\* local times of day at which the model lets something happen: one tick
\* before 08:30, 08:30:00 sharp, one tick after
Tods == { 8 * Hour + 30 * Minute - 1, 8 * Hour + 30 * Minute, 8 * Hour + 30 * Minute + 1 }

Instants == { d * Day + t - TZOffset : d \in 1..MaxDay, t \in Tods }

\* the instants time may have reached when a handler that started at t goes
\* on: t itself, or the next instant of the model
Elapsed(t) ==
    {t} \cup { i \in Instants : i > t /\ \A k \in Instants : k > t => k >= i }

Chats == {1, 2}

----------------------------------------------------------------------------
(* Strings *)

Digits == <<"0", "1", "2", "3", "4", "5", "6", "7", "8", "9">>

IsDigit(c) == \E i \in 1..10 : Digits[i] = c

DigitVal(c) == (CHOOSE i \in 1..10 : Digits[i] = c) - 1

\* the character at position i, or an end marker past the end
At(s, i) == IF i >= 1 /\ i <= Len(s) THEN s[i] ELSE "$"

RECURSIVE WordLen(_)
WordLen(s) ==
    IF s = <<>> \/ Head(s) = " " THEN 0 ELSE 1 + WordLen(Tail(s))

\* context.args: the text after the command, split on runs of whitespace
RECURSIVE Split(_)
Split(s) ==
    IF s = <<>> THEN <<>>
    ELSE IF Head(s) = " " THEN Split(Tail(s))
    ELSE LET n == WordLen(s)
         IN  <<SubSeq(s, 1, n)>> \o Split(SubSeq(s, n + 1, Len(s)))

\* " ".join(words)
RECURSIVE Join(_)
Join(words) ==
    IF words = <<>> THEN <<>>
    ELSE IF Len(words) = 1 THEN words[1]
    ELSE words[1] \o <<" ">> \o Join(Tail(words))

RECURSIVE LStrip(_)
LStrip(s) == IF s # <<>> /\ Head(s) = " " THEN LStrip(Tail(s)) ELSE s

RECURSIVE RStrip(_)
RStrip(s) ==
    IF s # <<>> /\ s[Len(s)] = " " THEN RStrip(SubSeq(s, 1, Len(s) - 1)) ELSE s

\* str.strip()
Strip(s) == RStrip(LStrip(s))

----------------------------------------------------------------------------
(* datetime.strptime(time_str, "%H:%M") *)

\* lengths the %H group 2[0-3]|[0-1]\d|\d can take at the start of s, in the
\* order the regex tries them
HourAlts(s) ==
    (IF \/ At(s, 1) = "2" /\ At(s, 2) \in {"0", "1", "2", "3"}
        \/ At(s, 1) \in {"0", "1"} /\ IsDigit(At(s, 2))
     THEN <<2>> ELSE <<>>)
    \o (IF IsDigit(At(s, 1)) THEN <<1>> ELSE <<>>)

\* length the %M group [0-5]\d|\d takes at position i of s (0: no match)
MinuteLen(s, i) ==
    IF At(s, i) \in {"0", "1", "2", "3", "4", "5"} /\ IsDigit(At(s, i + 1)) THEN 2
    ELSE IF IsDigit(At(s, i)) THEN 1
    ELSE 0

\* the number written by the n digits of s from position i
Num(s, i, n) ==
    IF n = 2 THEN 10 * DigitVal(s[i]) + DigitVal(s[i + 1]) ELSE DigitVal(s[i])

ValueError == [ok |-> FALSE, hour |-> 0, minute |-> 0]

\* strptime without the check that the whole string was consumed
strptime_prefix(s) ==
    LET Matches(hl) == At(s, hl + 1) = ":" /\ MinuteLen(s, hl + 2) > 0
        found == SelectSeq(HourAlts(s), Matches)
    IN  IF found = <<>> THEN ValueError
        ELSE LET hl == found[1]
                 ml == MinuteLen(s, hl + 2)
             IN  [ok |-> TRUE, hour |-> Num(s, 1, hl), minute |-> Num(s, hl + 2, ml)]

strptime(s) ==
    LET Matches(hl) == At(s, hl + 1) = ":" /\ MinuteLen(s, hl + 2) > 0
        found == SelectSeq(HourAlts(s), Matches)
    IN  IF found = <<>> THEN ValueError
        ELSE LET hl == found[1]
                 ml == MinuteLen(s, hl + 2)
             IN  IF hl + 1 + ml # Len(s) THEN ValueError
                 ELSE [ok |-> TRUE, hour |-> Num(s, 1, hl),
                       minute |-> Num(s, hl + 2, ml)]


----------------------------------------------------------------------------
(* State *)

\* the reply of a step that sends none (timer firing, time passing, restart)
NoReply == [cmd |-> "none", chat |-> 0, kind |-> "none", rows |-> <<>>]

\* update.message.reply_text(...) of handler cmd to chat c
Reply(cmd, c, kind, rows) == [cmd |-> cmd, chat |-> c, kind |-> kind, rows |-> rows]

\* CREATE TABLE IF NOT EXISTS: an existing table keeps its rows
init_db(table) == table

\* clock     the current instant (UTC ticks)
\* thoughts  rows of table thoughts, in rowid order
\* reminders rows of table reminders
\* jobs      the jobs armed in context.job_queue (lost with the process)
\* sent      the reminder messages pushed by job callbacks, in order
\* created   history: the reminders /remind confirmed, indexed by job id
\* reply     the reply sent by the step just taken
Init ==
    /\ clock \in { i \in Instants : LocalDate(i) = 1 }
    /\ thoughts = init_db(<<>>)
    /\ reminders = init_db(<<>>)
    /\ jobs = {}
    /\ sent = <<>>
    /\ created = <<>>
    /\ reply = NoReply

----------------------------------------------------------------------------
(* /remind *)

\* lines 143-145: too few arguments
TooFewArgs(args) == Len(args) < 2

\* lines 155-157: today's date at time_str in TIMEZONE, moved one day on when
\* it lies before now
TargetOf(now, tm) ==
    LET target == LocalDate(now) * Day + tm.hour * Hour + tm.minute * Minute
                    - TZOffset
    IN  IF target < now THEN target + Day ELSE target

\* (target - now).seconds: whole seconds only
WholeSeconds(target, now) == ((target - now) \div Second) * Second

\* line 158: (target - now).total_seconds(), in ticks
TotalSeconds(target, now) == target - now

\* job_queue.run_once(when=delay): the job is due `delay` after the instant
\* at which it is armed
RunOnceDue(armedAt, delay) == armedAt + delay

\* name=f"remind_{chat_id}"
JobName(c) == <<"remind", c>>

\* text=f"Reminder: {message}"
JobText(message) == <<"Reminder: ">> \o message

\* Lines 154-164 hold no await: no other handler runs between reading the
\* clock and arming the job, but wall-clock time may pass (clock -> armedAt).
remind_command(c, raw) ==
    LET args == Split(raw)
    IN  IF TooFewArgs(args)
        THEN /\ reply' = Reply("remind", c, "usage", <<>>)
             /\ UNCHANGED <<clock, thoughts, reminders, jobs, sent, created>>
        ELSE LET time_str == args[1]
                 message == Join(Tail(args))
                 tm == strptime(time_str)
             IN  IF ~tm.ok
                 THEN /\ reply' = Reply("remind", c, "badtime", <<>>)
                      /\ UNCHANGED <<clock, thoughts, reminders, jobs, sent,
                                     created>>
                 ELSE /\ Len(created) < MaxReminders
                      /\ \E armedAt \in Elapsed(clock) :
                           LET now == clock
                               target == TargetOf(now, tm)
                               delay == TotalSeconds(target, now)
                               id == Len(created) + 1
                               job == [id |-> id, name |-> JobName(c),
                                       chat_id |-> c, text |-> JobText(message),
                                       due |-> RunOnceDue(armedAt, delay)]
                           IN  /\ jobs' = jobs \cup {job}
                               /\ created' = Append(created,
                                     [chat_id |-> c, text |-> JobText(message),
                                      target |-> target])
                               /\ clock' = armedAt
                      /\ reply' = Reply("remind", c, "set", <<>>)
                      /\ UNCHANGED <<thoughts, reminders, sent>>

\* The job queue runs a job once, at or after its due instant: the callback
\* sends the message to the chat captured at creation, and the job is gone.
Fire(j) ==
    /\ j \in jobs
    /\ clock >= j.due
    /\ sent' = Append(sent, [id |-> j.id, chat_id |-> j.chat_id, text |-> j.text])
    /\ jobs' = jobs \ {j}
    /\ reply' = NoReply
    /\ UNCHANGED <<clock, thoughts, reminders, created>>

\* wall-clock time passes
Tick(S) ==
    /\ \E t \in S : t > clock /\ clock' = t
    /\ reply' = NoReply
    /\ UNCHANGED <<thoughts, reminders, jobs, sent, created>>

\* The process ends and main() runs again: init_db keeps the tables of
\* bot_data.db, Application.builder().build() starts with an empty job queue.
main ==
    /\ thoughts' = init_db(thoughts)
    /\ reminders' = init_db(reminders)
    /\ jobs' = {}
    /\ reply' = NoReply
    /\ UNCHANGED <<clock, sent, created>>

----------------------------------------------------------------------------
(* Requests the model sends *)

\* the text after /remind: nothing, a time without a message, well-formed
\* requests, and malformed times
RemindRaws ==
    { <<>>,
      <<"0", "8", ":", "3", "0">>,
      <<"0", "8", ":", "3", "0", " ", "a", " ", "b">>,
      <<" ", "8", ":", "3", "0", " ", " ", "a", " ", "b">>,
      <<"2", "4", ":", "0", "0", " ", "a">>,
      <<"0", "8", ":", "6", "0", " ", "a">>,
      <<"0", "8", "3", "0", " ", "a">>,
      <<"8", ":", "3", "0", "x", " ", "a">> }

Next ==
    \/ \E c \in Chats, raw \in RemindRaws : remind_command(c, raw)
    \/ \E j \in jobs : Fire(j)
    \/ Tick(Instants)
    \/ main

Spec == Init /\ [][Next]_vars

----------------------------------------------------------------------------
(* Journal: /thought, /today, /allthoughts *)

\* LIMIT 30 of the query without today_only
RecentLimit == 30

Min(a, b) == IF a < b THEN a ELSE b

\* datetime.now(TIMEZONE).isoformat(): local date and time with the offset
IsoFormat(t) == [date |-> LocalDate(t), tod |-> LocalTod(t), off |-> TZOffset]

\* sqlite DATE(timestamp): a time string with a zone suffix is converted to
\* UTC (the suffix is subtracted) before its date is taken
SqlDate(ts) == (ts.date * Day + ts.tod - ts.off) \div Day

\* ORDER BY timestamp: text order of the ISO strings, which for one fixed
\* offset is the order of (date, time of day)
TsLess(a, b) == a.date < b.date \/ (a.date = b.date /\ a.tod < b.tod)

\* the handler without its check for missing arguments
NoArgs_unchecked(args) == FALSE

\* line 168: no arguments after the command
NoArgs(args) == Len(args) = 0

\* lines 64-71
save_thought(chat_id, text) ==
    Append(thoughts, [id |-> Len(thoughts) + 1, chat_id |-> chat_id,
                      timestamp |-> IsoFormat(clock), text |-> Strip(text)])

\* The orders in which a query may return the rows numbered ids: every
\* arrangement sorted by timestamp (ascending or descending); the order of
\* rows with equal timestamps is not determined by the query.
Ordered(ids, desc) ==
    { f \in [1..Cardinality(ids) -> ids] :
        /\ \A i, j \in 1..Cardinality(ids) : i # j => f[i] # f[j]
        /\ \A i, j \in 1..Cardinality(ids) :
              i < j => IF desc
                       THEN ~TsLess(thoughts[f[i]].timestamp, thoughts[f[j]].timestamp)
                       ELSE ~TsLess(thoughts[f[j]].timestamp, thoughts[f[i]].timestamp) }

\* line 81: rows as {"time", "text"}
Rows(f, n) == [i \in 1..n |-> [time |-> thoughts[f[i]].timestamp, text |-> thoughts[f[i]].text]]

\* lines 73-83: the results the query may return
get_thoughts(chat_id, today_only) ==
    IF today_only
    THEN LET date == LocalDate(clock)
             ids == { i \in 1..Len(thoughts) :
                        thoughts[i].chat_id = chat_id /\ SqlDate(thoughts[i].timestamp) = date }
         IN  { Rows(f, Cardinality(ids)) : f \in Ordered(ids, FALSE) }
    ELSE LET ids == { i \in 1..Len(thoughts) : thoughts[i].chat_id = chat_id }
         IN  { Rows(f, Min(Cardinality(ids), RecentLimit)) : f \in Ordered(ids, TRUE) }

thought_command(c, raw) ==
    LET args == Split(raw)
    IN  IF NoArgs(args)
        THEN /\ reply' = Reply("thought", c, "usage", <<>>)
             /\ UNCHANGED <<clock, thoughts, reminders, jobs, sent, created>>
        ELSE /\ Len(thoughts) < MaxThoughts
             /\ thoughts' = save_thought(c, Join(args))
             /\ reply' = Reply("thought", c, "saved", <<>>)
             /\ UNCHANGED <<clock, reminders, jobs, sent, created>>

today_thoughts(c) ==
    /\ \E rows \in get_thoughts(c, TRUE) :
         reply' = IF rows = <<>> THEN Reply("today", c, "none", <<>>)
                  ELSE Reply("today", c, "list", rows)
    /\ UNCHANGED <<clock, thoughts, reminders, jobs, sent, created>>

\* line 190: "Last {len(thoughts)} thoughts" is the only count reported
ReportedCount(r) == Len(r.rows)

\* the handler does not read context.args: raw is ignored
all_thoughts(c, raw) ==
    /\ \E rows \in get_thoughts(c, FALSE) :
         reply' = IF rows = <<>> THEN Reply("allthoughts", c, "none", <<>>)
                  ELSE Reply("allthoughts", c, "list", rows)
    /\ UNCHANGED <<clock, thoughts, reminders, jobs, sent, created>>

\* local times of day of the journal runs: 03:00, 08:30 sharp and a tick later
JournalTods == { 3 * Hour, 8 * Hour + 30 * Minute, 8 * Hour + 30 * Minute + 1 }

JournalInstants == { d * Day + t - TZOffset : d \in 1..MaxDay, t \in JournalTods }

\* the text after /thought
ThoughtRaws ==
    { <<>>, <<" ", " ">>, <<"a">>, <<" ", "a", " ">>, <<"a", " ", " ", "b">> }

\* the text after /allthoughts: nothing, or a number of entries asked for
AllRaws == { <<>>, <<"1">>, <<"2">> }

JournalInit ==
    /\ clock \in { i \in JournalInstants : LocalDate(i) = 1 }
    /\ thoughts = init_db(<<>>)
    /\ reminders = init_db(<<>>)
    /\ jobs = {}
    /\ sent = <<>>
    /\ created = <<>>
    /\ reply = NoReply

JournalNext ==
    \/ \E c \in Chats, raw \in ThoughtRaws : thought_command(c, raw)
    \/ \E c \in Chats : today_thoughts(c)
    \/ \E c \in Chats, raw \in AllRaws : all_thoughts(c, raw)
    \/ Tick(JournalInstants)
    \/ main

JournalSpec == JournalInit /\ [][JournalNext]_vars


----------------------------------------------------------------------------
(* Properties of the reminder engine *)

\* the reminder created by the step, when the step created one
Newest == created'[Len(created')]

Creates == Len(created') = Len(created) + 1

\* the job fired by the step, when the step fired one
Fires == Len(sent') = Len(sent) + 1

Delivered(i) == { k \in 1..Len(sent) : sent[k].id = i }

Live(i) == \E j \in jobs : j.id = i

\* C1: the firing instant computed when a reminder is created is strictly
\* after the instant `now` the handler read, and is the next instant at which
\* the local wall clock shows time_of_day (the following day when now is
\* exactly on it).
C1_FiringStrictlyAfterNow ==
    [][Creates => /\ Newest.target > clock
                  /\ Newest.target <= clock + Day]_vars

\* C2: the live timers are exactly the reminders that were created and have
\* not fired yet, also after main() has run again.
C2_TimersSurviveRestart ==
    { j.id : j \in jobs } = { i \in 1..Len(created) : Delivered(i) = {} }

\* C3: every armed timer has a durable row in table reminders.
C3_TimerHasRow ==
    \A j \in jobs :
        \E k \in 1..Len(reminders) :
            /\ reminders[k].chat_id = j.chat_id
            /\ JobText(reminders[k].message) = j.text

C5_DeliveredExactlyOnce ==
    \A i \in 1..Len(created) :
        \/ Live(i) /\ Delivered(i) = {}
        \/ /\ ~Live(i)
           /\ Cardinality(Delivered(i)) = 1
           /\ \A k \in Delivered(i) : sent[k].chat_id = created[i].chat_id

\* f writes a number of 0..max in one or two decimal digits
IsField(f, max) ==
    /\ Len(f) \in {1, 2}
    /\ \A i \in 1..Len(f) : IsDigit(f[i])
    /\ \E n \in 0..max :
          f \in { <<Digits[(n \div 10) + 1], Digits[(n % 10) + 1]>> }
                   \cup (IF n < 10 THEN { <<Digits[n + 1]>> } ELSE {})

\* s writes an hour of 0..23 and a minute of 0..59 around one colon
IsHHMM(s) ==
    \E k \in 1..Len(s) :
        /\ s[k] = ":"
        /\ IsField(SubSeq(s, 1, k - 1), 23)
        /\ IsField(SubSeq(s, k + 1, Len(s)), 59)

\* a request with a time of day and a message
WellFormed(raw) == Len(Split(raw)) >= 2 /\ IsHHMM(Split(raw)[1])

Malformed == { raw \in RemindRaws : ~WellFormed(raw) }

\* C6: a /remind request without a message or with a malformed time is
\* answered with a validation error and arms no timer and writes no row; a
\* timer is armed only by a request with a valid time and a message.
\* (Every /remind step is answered: with an error, which changes nothing, or
\* with "set", which no malformed request can obtain.)
C6_ValidationChangesNothing ==
    [][/\ reply'.cmd = "remind" => reply'.kind \in {"usage", "badtime", "set"}
       /\ (reply'.cmd = "remind" /\ reply'.kind \in {"usage", "badtime"}) =>
            UNCHANGED <<jobs, reminders, created, thoughts, sent>>
       /\ (reply'.cmd = "remind" /\ reply'.kind = "set") =>
            /\ \A raw \in Malformed : ~remind_command(reply'.chat, raw)
            /\ \E raw \in RemindRaws \ Malformed : remind_command(reply'.chat, raw)
       /\ jobs' \ jobs # {} =>
            /\ reply'.cmd = "remind" /\ reply'.kind = "set"
            /\ \A j \in jobs' \ jobs : j.chat_id = reply'.chat]_vars

C6_Witness ==
    /\ reply.cmd = "remind" /\ reply.kind = "badtime"
    /\ jobs # {}

\* C10: a reminder is never delivered before its target instant.
C10_NeverEarly ==
    [][Fires => clock >= created[sent'[Len(sent')].id].target]_vars

\* a reminder has been delivered, and another one was armed after time had
\* passed since its handler read the clock
C10_Witness ==
    /\ Len(sent) > 0
    /\ \E j \in jobs : j.due > created[j.id].target

----------------------------------------------------------------------------
(* Properties of the journal *)

Mine(c) == { i \in 1..Len(thoughts) : thoughts[i].chat_id = c }

\* C7: /today returns exactly the entries of the chat recorded on the current
\* local calendar date, in ascending order of recording time.
C7_TodayIsLocalDate ==
    reply.cmd = "today" =>
        LET today == { i \in Mine(reply.chat) :
                         thoughts[i].timestamp.date = LocalDate(clock) }
            rows == reply.rows
        IN  /\ Len(rows) = Cardinality(today)
            /\ { rows[k] : k \in 1..Len(rows) } =
                 { [time |-> thoughts[i].timestamp, text |-> thoughts[i].text] : i \in today }
            /\ \A a, b \in 1..Len(rows) : a < b => ~TsLess(rows[b].time, rows[a].time)

\* the number of entries a request asks for
Limit(raw) == DigitVal(raw[1])

\* C8: a recent query asking for L entries returns the min(n, L) most recent
\* of the chat's n entries, newest first, and reports the total n.
C8_RecentLimitAndTotal ==
    [][\A c \in Chats, raw \in AllRaws \ {<<>>} :
          all_thoughts(c, raw) =>
              /\ Len(reply'.rows) = Min(Cardinality(Mine(c)), Limit(raw))
              /\ ReportedCount(reply') = Cardinality(Mine(c))
              /\ \A a, b \in 1..Len(reply'.rows) :
                    a < b => ~TsLess(reply'.rows[a].time, reply'.rows[b].time)]_vars

Blank(s) == \A i \in 1..Len(s) : s[i] = " "

Spaces(n) == [i \in 1..n |-> " "]

\* t is s without its leading and trailing whitespace
IsTrimOf(t, s) ==
    /\ t # <<>> => t[1] # " " /\ t[Len(t)] # " "
    /\ \E a, b \in 0..Len(s) : s = Spaces(a) \o t \o Spaces(b)

\* C9: /thought stores the text handed to save_thought (the words of the
\* request joined by single spaces) with leading and trailing whitespace
\* removed; a request whose text is empty or blank is answered with a
\* validation error and stores nothing; no stored entry has empty text.
C9_TrimmedNeverEmpty ==
    /\ [](\A i \in 1..Len(thoughts) : thoughts[i].text # <<>>)
    /\ [][\A c \in Chats, raw \in ThoughtRaws :
            thought_command(c, raw) =>
                IF Blank(raw)
                THEN reply'.kind = "usage" /\ thoughts' = thoughts
                ELSE /\ Len(thoughts') = Len(thoughts) + 1
                     /\ SubSeq(thoughts', 1, Len(thoughts)) = thoughts
                     /\ thoughts'[Len(thoughts')].chat_id = c
                     /\ IsTrimOf(thoughts'[Len(thoughts')].text, Join(Split(raw)))]_vars

C9_Witness ==
    /\ reply.cmd = "thought" /\ reply.kind = "usage"
    /\ \E i \in 1..Len(thoughts) : Len(thoughts[i].text) > 1

============================================================================
